---- MODULE Spec2Model ----
(***************************************************************************)
(* Model of the vipsgen introspection layer                                *)
(* (src/internal/introspection/introspection.c and its older copy          *)
(* src/introspection/introspection.c).                                     *)
(*                                                                         *)
(* The foreign type system (GType registry, libvips classes) is the        *)
(* environment: it is chosen in Init and never changes.  Each public query *)
(* of the layer is one action; it leaves its return value in ret, the      *)
(* handle events of the call in log and the number of handles still held   *)
(* in outstanding.  Allocation (malloc, strdup) is taken to succeed.       *)
(*                                                                         *)
(* A C string is a sequence of one-character strings; the null pointer is  *)
(* the value Null.  A string returned by strdup is a heap block, written   *)
(* [heap |-> TRUE, chars |-> s]; a char* result that is NULL is NullPtr.    *)
(***************************************************************************)
EXTENDS Integers, Sequences, FiniteSets, TLC

VARIABLES reg, enums, call, ret, log, outstanding

vars == <<reg, enums, call, ret, log, outstanding>>

\* ------------------------------------------------------------------ bounds

\* Number of types registered below the base operation type (walk family).
MaxTypes == 3

\* Longest parameter list drawn freely from the mix pool (args family).
MaxParams == 2

\* Largest enum class whose value names and nicks are drawn freely.
MaxEnumValues == 3

\* Number of types below the base type in the registries every query runs on.
MaxCallTypes == 2

\* ----------------------------------------------------------------- strings

\* The null pointer: a one-element sequence whose element is no character.
Null == <<"NULL">>

\* strdup: a fresh heap block holding a copy of the characters of s.
Strdup(s) == [heap |-> TRUE, chars |-> s]

\* A char* field that holds NULL.
NullPtr == [heap |-> FALSE, chars |-> Null]

\* strstr(hay, needle) != NULL
Contains(hay, needle) ==
  \E i \in 0..(Len(hay) - Len(needle)) : SubSeq(hay, i + 1, i + Len(needle)) = needle

\* ------------------------------------------------------- the type registry

\* VIPS_TYPE_OPERATION, the root of the walk.
VIPS_TYPE_OPERATION == 0

\* The types of a registry r: the base type and r.n registered descendants.
Types(r) == 0..r.n

\* g_type_name / G_OBJECT_TYPE_NAME: the GType name, distinct from any nickname.
TypeName(t) == <<"V", "i", "p", "s", ToString(t)>>

\* g_type_children(type, &n): the direct children, in registration order.
g_type_children(r, type) ==
  SelectSeq([i \in 1..r.n |-> i], LAMBDA c : r.parent[c] = type)

\* G_TYPE_IS_ABSTRACT(type)
G_TYPE_IS_ABSTRACT(r, type) == r.kind[type] = "abstract"

\* g_object_new(type, NULL) != NULL: an abstract type cannot be instantiated,
\* and the construction of a concrete type may fail.
g_object_new(r, type) == r.kind[type] = "concrete"

\* ------------------------------------------------------------ handle events

ClassRef(t) == <<"g_type_class_ref", t>>
ClassUnref(t) == <<"g_type_class_unref", t>>
ObjectNew(t) == <<"g_object_new", t>>
ObjectUnref(t) == <<"g_object_unref", t>>

Count(s, e) == Cardinality({i \in 1..Len(s) : s[i] = e})

\* Handles acquired and not released by the events of s.
Held(s) ==
  Cardinality({i \in 1..Len(s) : s[i][1] \in {"g_type_class_ref", "g_object_new"}})
  - Cardinality({i \in 1..Len(s) : s[i][1] \in {"g_type_class_unref", "g_object_unref"}})

\* ------------------------------------------------- get_all_operation_names

\* probe_type without the check that g_object_new returned an instance.
probe_type_unchecked(r, t, list) ==
  IF ~G_TYPE_IS_ABSTRACT(r, t) /\ r.nickname[t] # Null
  THEN [names |-> Append(list.names, Strdup(r.nickname[t])),
        capacity |-> list.capacity,
        log |-> list.log \o <<ClassRef(t), ClassUnref(t)>>]
  ELSE list

\* The body run for one child or grandchild type: a concrete type with a
\* nickname that can be instantiated appends a copy of its nickname.
probe_type(r, t, list) ==
  IF ~G_TYPE_IS_ABSTRACT(r, t)
  THEN IF r.nickname[t] # Null
       THEN IF g_object_new(r, t)
            THEN [names |-> Append(list.names, Strdup(r.nickname[t])),
                  capacity |-> IF Len(list.names) >= list.capacity
                               THEN list.capacity * 2 ELSE list.capacity,
                  log |-> list.log \o <<ClassRef(t), ObjectNew(t),
                                         ObjectUnref(t), ClassUnref(t)>>]
            ELSE [list EXCEPT !.log = @ \o <<ClassRef(t), ClassUnref(t)>>]
       ELSE [list EXCEPT !.log = @ \o <<ClassRef(t), ClassUnref(t)>>]
  ELSE list

RECURSIVE grandchildren_loop(_, _, _, _)
\* for (j = 0; j < n_grandchildren; j++)
grandchildren_loop(r, grandchildren, j, list) ==
  IF j > Len(grandchildren) THEN list
  ELSE grandchildren_loop(r, grandchildren, j + 1,
                          probe_type(r, grandchildren[j], list))

RECURSIVE children_loop(_, _, _, _)
\* for (i = 0; i < n_children; i++): the child, then its own children.
children_loop(r, children, i, list) ==
  IF i > Len(children) THEN list
  ELSE children_loop(r, children, i + 1,
         grandchildren_loop(r, g_type_children(r, children[i]), 1,
                            probe_type(r, children[i], list)))

\* char** get_all_operation_names(int *count)
get_all_operation_names(r) ==
  LET list == children_loop(r, g_type_children(r, VIPS_TYPE_OPERATION), 1,
                            [names |-> <<>>, capacity |-> 1000, log |-> <<>>])
  IN [names |-> list.names, count |-> Len(list.names), log |-> list.log]

\* ------------------------------------------------------ get_all_operations

\* const int max_ops = 1000
max_ops == 1000

\* collect_operations that drops a type whose construction fails.
collect_operations_omit(r, type, st, max_count) ==
  IF ~G_TYPE_IS_ABSTRACT(r, type) /\ Len(st.info) < max_count
     /\ r.nickname[type] # Null /\ g_object_new(r, type)
  THEN [info |-> Append(st.info,
          [name |-> Strdup(r.nickname[type]),
           nickname |-> Strdup(r.nickname[type]),
           description |-> Strdup(IF r.description[type] # Null
                                  THEN r.description[type] ELSE <<>>),
           flags |-> r.opflags[type]]),
        log |-> st.log \o <<ClassRef(type), ObjectNew(type),
                             ObjectUnref(type), ClassUnref(type)>>]
  ELSE st

\* collect_operations: one OperationInfo for a concrete type with a nickname.
collect_operations(r, type, st, max_count) ==
  IF ~G_TYPE_IS_ABSTRACT(r, type) /\ Len(st.info) < max_count
  THEN IF r.nickname[type] # Null
       THEN [info |-> Append(st.info,
               [name |-> Strdup(r.nickname[type]),
                nickname |-> Strdup(r.nickname[type]),
                description |-> Strdup(IF r.description[type] # Null
                                       THEN r.description[type] ELSE <<>>),
                flags |-> IF g_object_new(r, type) THEN r.opflags[type] ELSE 0]),
             log |-> st.log \o <<ClassRef(type)>>
                     \o (IF g_object_new(r, type)
                         THEN <<ObjectNew(type), ObjectUnref(type)>> ELSE <<>>)
                     \o <<ClassUnref(type)>>]
       ELSE [st EXCEPT !.log = @ \o <<ClassRef(type), ClassUnref(type)>>]
  ELSE st

RECURSIVE collect_operations_recursive(_, _, _, _)
RECURSIVE collect_children(_, _, _, _, _)
\* for (i = 0; i < n_children && *count < max_count; i++)
collect_children(r, children, i, st, max_count) ==
  IF i > Len(children) \/ ~(Len(st.info) < max_count) THEN st
  ELSE collect_children(r, children, i + 1,
         collect_operations_recursive(r, children[i], st, max_count), max_count)

\* collect_operations_recursive: this type, then every child type.
collect_operations_recursive(r, type, st, max_count) ==
  collect_children(r, g_type_children(r, type), 1,
                   collect_operations(r, type, st, max_count), max_count)

\* OperationInfo* get_all_operations(int *count)
get_all_operations(r) ==
  LET st == collect_operations_recursive(r, VIPS_TYPE_OPERATION,
                                         [info |-> <<>>, log |-> <<>>], max_ops)
  IN [operations |-> st.info, count |-> Len(st.info), log |-> st.log]

\* -------------------------------------------------- get_operation_arguments

\* vips_operation_new(name): the type registered under the base type whose
\* nickname or type name is name (the first registered, if several), and on
\* success a new instance of it.  ok is FALSE when no type matches or when
\* g_object_new gives no instance.
vips_operation_new(r, name) ==
  LET found == {t \in Types(r) : r.nickname[t] = name \/ TypeName(t) = name}
      type == CHOOSE t \in found : \A u \in found : t <= u
  IN IF found = {} THEN [ok |-> FALSE, type |-> VIPS_TYPE_OPERATION]
     ELSE [ok |-> g_object_new(r, type), type |-> type]

\* A guint is written as its two 16-bit halves, [hi, lo], standing for
\* hi * 2^16 + lo: the values from 2^31 up do not fit 32-bit signed integers.
Guint(hi, lo) == [hi |-> hi, lo |-> lo]

\* (gint)u of a guint u: the same 32 bits read as a signed integer.
ToGint(u) == IF u.hi >= 32768 THEN (u.hi - 65536) * 65536 + u.lo
             ELSE u.hi * 65536 + u.lo

\* decode_default that reports a default for every string parameter, also
\* when the foreign default is null.
decode_default_nullstring(pspec) ==
  [has_default |-> IF pspec.kind \in {"boolean", "int", "uint", "double",
                                      "float", "string", "enum"} THEN 1 ELSE 0,
   default_type |-> CASE pspec.kind = "boolean" -> 1
                      [] pspec.kind \in {"int", "uint", "enum"} -> 2
                      [] pspec.kind \in {"double", "float"} -> 3
                      [] pspec.kind = "string" -> 4
                      [] OTHER -> 0,
   bool_default |-> IF pspec.kind = "boolean" THEN pspec.default_value ELSE FALSE,
   int_default |-> CASE pspec.kind \in {"int", "enum"} -> pspec.default_value
                     [] pspec.kind = "uint" -> ToGint(pspec.default_value)
                     [] OTHER -> 0,
   double_default |-> IF pspec.kind \in {"double", "float"}
                      THEN pspec.default_value ELSE 0,
   string_default |-> IF pspec.kind = "string" /\ pspec.default_value # Null
                      THEN Strdup(pspec.default_value) ELSE NullPtr]

\* The default-value fields of an ArgInfo, decoded from the parameter spec:
\* initialised to "no default", then set by the kind of the spec.
decode_default(pspec) ==
  LET none == [has_default |-> 0, default_type |-> 0, bool_default |-> FALSE,
               int_default |-> 0, double_default |-> 0, string_default |-> NullPtr]
  IN CASE pspec.kind = "boolean" ->
            [none EXCEPT !.has_default = 1, !.default_type = 1,
                         !.bool_default = pspec.default_value]
       [] pspec.kind = "int" ->
            [none EXCEPT !.has_default = 1, !.default_type = 2,
                         !.int_default = pspec.default_value]
       [] pspec.kind = "uint" ->
            [none EXCEPT !.has_default = 1, !.default_type = 2,
                         !.int_default = ToGint(pspec.default_value)]
       [] pspec.kind = "double" ->
            [none EXCEPT !.has_default = 1, !.default_type = 3,
                         !.double_default = pspec.default_value]
       [] pspec.kind = "float" ->
            [none EXCEPT !.has_default = 1, !.default_type = 3,
                         !.double_default = pspec.default_value]
       [] pspec.kind = "string" ->
            IF pspec.default_value # Null
            THEN [none EXCEPT !.has_default = 1, !.default_type = 4,
                              !.string_default = Strdup(pspec.default_value)]
            ELSE none
       [] pspec.kind = "enum" ->
            [none EXCEPT !.has_default = 1, !.default_type = 2,
                         !.int_default = pspec.default_value]
       [] OTHER -> none

\* An ArgInfo slot of the malloc'ed array before anything is stored in it:
\* every field holds whatever the block held, g.
UninitialisedArgInfo(g) ==
  [name |-> g, nick |-> g, blurb |-> g, flags |-> g, type_val |-> g,
   is_input |-> g, is_output |-> g, required |-> g,
   has_default |-> g, default_type |-> g, bool_default |-> g,
   int_default |-> g, double_default |-> g, string_default |-> g,
   is_image |-> g, is_buffer |-> g, is_array |-> g]

\* The assignments of collect_argument to *arg, d being the decoded default.
\* is_image, is_buffer and is_array are not assigned.
store_argument(p, arg, d) ==
  [arg EXCEPT
     !.name = Strdup(p.name),
     !.nick = Strdup(p.nick),
     !.blurb = Strdup(p.blurb),
     !.flags = p.flags,
     !.type_val = p.pspec.value_type,
     !.is_input = IF "INPUT" \in p.flags THEN 1 ELSE 0,
     !.is_output = IF "OUTPUT" \in p.flags THEN 1 ELSE 0,
     !.required = IF "REQUIRED" \in p.flags THEN 1 ELSE 0,
     !.has_default = d.has_default,
     !.default_type = d.default_type,
     !.bool_default = d.bool_default,
     !.int_default = d.int_default,
     !.double_default = d.double_default,
     !.string_default = d.string_default]

\* collect_argument: fills *arg from the parameter p; a deprecated parameter
\* leaves the slot as it was.
collect_argument(p, arg) ==
  IF "DEPRECATED" \in p.flags THEN arg
  ELSE store_argument(p, arg, decode_default(p.pspec))

\* collect_arguments_cb that also stores the deprecated parameters.
collect_arguments_cb_nodep(data, p) ==
  IF Len(data.args) >= data.max_count THEN data
  ELSE [data EXCEPT !.args = Append(@,
          [collect_argument([p EXCEPT !.flags = @ \ {"DEPRECATED"}],
                            UninitialisedArgInfo(data.heap))
             EXCEPT !.flags = p.flags])]

\* collect_arguments_cb with the space test letting one more descriptor in.
collect_arguments_cb_overrun(data, p) ==
  IF Len(data.args) > data.max_count THEN data
  ELSE IF "DEPRECATED" \in p.flags THEN data
  ELSE [data EXCEPT !.args = Append(@, collect_argument(p, UninitialisedArgInfo(data.heap)))]

\* collect_arguments_cb: data.args holds the *count descriptors stored so far.
collect_arguments_cb(data, p) ==
  IF Len(data.args) >= data.max_count THEN data
  ELSE IF "DEPRECATED" \in p.flags THEN data
  ELSE [data EXCEPT !.args = Append(@, collect_argument(p, UninitialisedArgInfo(data.heap)))]

RECURSIVE vips_argument_map(_, _, _, _)
\* vips_argument_map: the callback on each of the declared parameters
\* params[lo..hi], in order (the callback always returns NULL, so the map
\* never stops early).  The range is split in two halves and the data left by
\* the first half is computed before the second half starts, which keeps the
\* evaluation shallow for long parameter lists.
vips_argument_map(params, lo, hi, data) ==
  IF lo > hi THEN data
  ELSE IF lo = hi THEN collect_arguments_cb(data, params[lo])
  ELSE CHOOSE done \in
         {vips_argument_map(params, (lo + hi) \div 2 + 1, hi, half) :
            half \in {vips_argument_map(params, lo, (lo + hi) \div 2, data)}} : TRUE

\* const int max_args = 50
max_args == 50

\* arguments_collected with the instance kept.
arguments_collected_kept(op, data) ==
  [null |-> FALSE, args |-> data.args, count |-> Len(data.args),
   log |-> <<ObjectNew(op.type)>>]

\* What get_operation_arguments returns once the map has run: the array,
\* *count, and the instance released.
arguments_collected(op, data) ==
  [null |-> FALSE, args |-> data.args, count |-> Len(data.args),
   log |-> <<ObjectNew(op.type), ObjectUnref(op.type)>>]

\* get_operation_arguments from the result op of vips_operation_new on.
arguments_of(r, op, heap) ==
  IF ~op.ok THEN [null |-> TRUE, args |-> <<>>, count |-> 0, log |-> <<>>]
  ELSE arguments_collected(op,
         vips_argument_map(r.args[op.type], 1, Len(r.args[op.type]),
                           [args |-> <<>>, max_count |-> max_args, heap |-> heap]))

\* ArgInfo* get_operation_arguments(const char *operation_name, int *count);
\* heap is the content of the block malloc returns, null tells that the
\* returned pointer is NULL.
get_operation_arguments(r, operation_name, heap) ==
  arguments_of(r, vips_operation_new(r, operation_name), heap)

\* ---------------------------------------------------- get_operation_details

S_buf == <<"b","u","f">>
S_buffer == <<"b","u","f","f","e","r">>
S_gpointer == <<"g","p","o","i","n","t","e","r">>
S_load == <<"l","o","a","d">>
S_save == <<"s","a","v","e">>
S_conv == <<"c","o","n","v">>
S_conva == <<"c","o","n","v","a">>
S_affine == <<"a","f","f","i","n","e">>
S_resize == <<"r","e","s","i","z","e">>
S_add == <<"a","d","d">>
S_subtract == <<"s","u","b","t","r","a","c","t">>
S_foreign == <<"f","o","r","e","i","g","n">>
S_convolution == <<"c","o","n","v","o","l","u","t","i","o","n">>
S_resample == <<"r","e","s","a","m","p","l","e">>
S_arithmetic == <<"a","r","i","t","h","m","e","t","i","c">>
S_operation == <<"o","p","e","r","a","t","i","o","n">>

\* The value types (GType) of parameters; G_TYPE_INVALID has no name.
G_TYPE_INVALID == "invalid"
g_type_name(type) ==
  CASE type = G_TYPE_INVALID -> Null
    [] type = "gpointer" -> S_gpointer
    [] OTHER -> <<type>>

\* g_type_is_a(type, is_a_type): no value type of the model derives from
\* another one.
g_type_is_a(type, is_a_type) == type = is_a_type

\* The block malloc returns to the calls made inside get_operation_details.
InnerHeap == 0

\* The loop of has_buffer_param over the descriptors out.
buffer_param_in(out, is_output) ==
  IF out.null THEN [result |-> 0, log |-> out.log]
  ELSE [result |->
          IF \E i \in 1..out.count :
               /\ out.args[i].is_output = is_output
               /\ out.args[i].name.chars \in {S_buf, S_buffer}
               /\ \/ g_type_is_a(out.args[i].type_val, "gpointer")
                  \/ g_type_is_a(out.args[i].type_val, "GBytes")
                  \/ g_type_is_a(out.args[i].type_val, "VipsBlob")
                  \/ g_type_name(out.args[i].type_val) = Null
                  \/ g_type_name(out.args[i].type_val) = S_gpointer
          THEN 1 ELSE 0,
        log |-> out.log]

\* has_buffer_param(op, is_output)
has_buffer_param(r, op, is_output) ==
  buffer_param_in(get_operation_arguments(r, TypeName(op), InnerHeap), is_output)

\* image_param_in that counts the image parameters of either direction.
image_param_in_any_direction(out, is_output, count) ==
  IF out.null THEN [result |-> 0, count |-> count, log |-> out.log]
  ELSE [result |-> IF \E i \in 1..out.count :
                        g_type_is_a(out.args[i].type_val, "VipsImage")
                   THEN 1 ELSE 0,
        count |-> Cardinality({i \in 1..out.count :
                                 g_type_is_a(out.args[i].type_val, "VipsImage")}),
        log |-> out.log]

\* The loop of has_image_param over the descriptors out; count is the
\* caller's value of *count, which is left alone when out is NULL.
image_param_in(out, is_output, count) ==
  IF out.null THEN [result |-> 0, count |-> count, log |-> out.log]
  ELSE [result |-> IF \E i \in 1..out.count :
                        /\ out.args[i].is_output = is_output
                        /\ g_type_is_a(out.args[i].type_val, "VipsImage")
                   THEN 1 ELSE 0,
        count |-> Cardinality({i \in 1..out.count :
                                 /\ out.args[i].is_output = is_output
                                 /\ g_type_is_a(out.args[i].type_val, "VipsImage")}),
        log |-> out.log]

\* has_image_param(op, is_output, &count)
has_image_param(r, op, is_output, count) ==
  image_param_in(get_operation_arguments(r, TypeName(op), InnerHeap), is_output, count)

\* The category rules with the convolution test before the foreign test.
category_of_conv_first(operation_name) ==
  IF Contains(operation_name, S_conv) THEN S_convolution
  ELSE IF Contains(operation_name, S_load) \/ Contains(operation_name, S_save)
  THEN S_foreign
  ELSE S_operation

\* The if / else-if chain over strstr(operation_name, ...).
category_of(operation_name) ==
  IF Contains(operation_name, S_load) \/ Contains(operation_name, S_save)
  THEN S_foreign
  ELSE IF Contains(operation_name, S_conv) \/ Contains(operation_name, S_conva)
  THEN S_convolution
  ELSE IF Contains(operation_name, S_affine) \/ Contains(operation_name, S_resize)
  THEN S_resample
  ELSE IF Contains(operation_name, S_add) \/ Contains(operation_name, S_subtract)
  THEN S_arithmetic
  ELSE S_operation

\* OperationDetails details = {0}
ZeroDetails ==
  [has_image_input |-> 0, has_image_output |-> 0, has_one_image_output |-> 0,
   has_buffer_input |-> 0, has_buffer_output |-> 0,
   has_array_image_input |-> 0, category |-> NullPtr]

\* The details filled in by get_operation_details for the instance op, from
\* the results of its helper calls.
details_filled(r, operation_name, op, inp, outp, bin, bout, arr) ==
  [details |->
     [has_image_input |-> inp.result,
      has_image_output |-> outp.result,
      has_one_image_output |-> IF outp.count = 1 THEN 1 ELSE 0,
      has_buffer_input |-> bin.result,
      has_buffer_output |-> bout.result,
      has_array_image_input |->
        IF ~arr.null
           /\ \E i \in 1..arr.count :
                /\ arr.args[i].is_output = 0
                /\ g_type_is_a(arr.args[i].type_val, "VipsArrayImage")
        THEN 1 ELSE 0,
      category |-> IF r.nickname[op.type] # Null
                   THEN Strdup(category_of(operation_name)) ELSE NullPtr],
   log |-> <<ObjectNew(op.type)>> \o inp.log \o outp.log \o bin.log
           \o bout.log \o arr.log \o <<ObjectUnref(op.type)>>]

\* get_operation_details from the result op of vips_operation_new on.
details_of(r, operation_name, op) ==
  IF ~op.ok THEN [details |-> ZeroDetails, log |-> <<>>]
  ELSE details_filled(r, operation_name, op,
                      has_image_param(r, op.type, 0, 0),
                      has_image_param(r, op.type, 1, 0),
                      has_buffer_param(r, op.type, 0),
                      has_buffer_param(r, op.type, 1),
                      get_operation_arguments(r, operation_name, InnerHeap))

\* OperationDetails get_operation_details(const char *operation_name)
get_operation_details(r, operation_name) ==
  details_of(r, operation_name, vips_operation_new(r, operation_name))

\* ----------------------------------------------------------- get_enum_values

S_UNKNOWN == <<"U","N","K","N","O","W","N">>

\* The largest value count get_enum_values accepts.
EnumSanityLimit == 100

\* g_type_from_name(name): the position of the type in the registry of named
\* types en, 0 when no type has that name.
g_type_from_name(en, name) ==
  IF \E t \in 1..Len(en) : en[t].name = name
  THEN CHOOSE t \in 1..Len(en) : en[t].name = name
  ELSE 0

\* The sanity check with the limit itself rejected.
count_rejected_at_limit(count) == count <= 0 \/ count >= EnumSanityLimit

\* if (*count <= 0 || *count > 100)
count_rejected(count) == count <= 0 \/ count > EnumSanityLimit

\* One pass of the copy loop: the strings copied, a null name replaced by
\* "UNKNOWN" and a null nick by "".
copy_enum_value(v) ==
  [name |-> IF v.value_name # Null THEN Strdup(v.value_name) ELSE Strdup(S_UNKNOWN),
   value |-> v.value,
   nick |-> IF v.value_nick # Null THEN Strdup(v.value_nick) ELSE Strdup(<<>>)]

\* get_enum_values from the resolved type on; count is (int)n_values.
enum_values_of(en, type, count) ==
  IF ~en[type].classed
  THEN [null |-> TRUE, values |-> <<>>, count |-> 0, log |-> <<>>]
  ELSE IF count_rejected(count)
  THEN [null |-> TRUE, values |-> <<>>, count |-> 0,
        log |-> <<ClassRef(type), ClassUnref(type)>>]
  ELSE [null |-> FALSE,
        values |-> [i \in 1..count |-> copy_enum_value(en[type].values[i])],
        count |-> count,
        log |-> <<ClassRef(type), ClassUnref(type)>>]

\* EnumValueInfo* get_enum_values(const char *enum_type_name, int *count)
get_enum_values(en, enum_type_name) ==
  IF g_type_from_name(en, enum_type_name) = 0
  THEN [null |-> TRUE, values |-> <<>>, count |-> 0, log |-> <<>>]
  ELSE enum_values_of(en, g_type_from_name(en, enum_type_name),
         IF en[g_type_from_name(en, enum_type_name)].classed
         THEN ToGint(en[g_type_from_name(en, enum_type_name)].n_values) ELSE 0)

\* --------------------------------------------------- get_vips_operation_args

\* A pointer to the characters s that lie in memory of the type system.
Borrowed(s) == [heap |-> FALSE, chars |-> s]

\* g_malloc(n_bytes): NULL for 0 bytes, a block otherwise (it aborts instead
\* of failing).
g_malloc(n) == n # 0

\* vips_object_find_args over the whole argument table: names[i] is what
\* g_param_spec_get_name returns, flags[i] the argument class flags.
vips_object_find_args(params) ==
  [names |-> [i \in 1..Len(params) |-> Borrowed(params[i].name)],
   flags |-> [i \in 1..Len(params) |-> params[i].flags]]

\* int get_vips_operation_args(VipsOperation *op, char ***names, int **flags,
\* int *n_args), op an instance of type; written tells whether *n_args was
\* assigned.
get_vips_operation_args(r, type) ==
  IF ~g_malloc(Len(r.args[type]))
  THEN [result |-> -1, names |-> <<>>, flags |-> <<>>, n_args |-> 0, written |-> FALSE]
  ELSE [result |-> 0,
        names |-> vips_object_find_args(r.args[type]).names,
        flags |-> vips_object_find_args(r.args[type]).flags,
        n_args |-> Len(r.args[type]), written |-> TRUE]

\* ------------------------------------------------------- release functions

\* A block of a returned collection: the array itself, or the string in
\* field `field` of entry i.
ArrayBlock == <<"array", 0>>
StringBlock(field, i) == <<field, i>>

\* free(p) for the pointer p stored at block position at: the block freed,
\* nothing for free(NULL).
free(p, at) == IF p = NullPtr THEN <<>> ELSE <<at>>

RECURSIVE free_names_loop(_, _, _)
\* for (i = 0; i < count; i++) free(names[i]);
free_names_loop(names, lo, hi) ==
  IF lo > hi THEN <<>>
  ELSE IF lo = hi THEN free(names[lo], StringBlock("names", lo))
  ELSE free_names_loop(names, lo, (lo + hi) \div 2)
       \o free_names_loop(names, (lo + hi) \div 2 + 1, hi)

\* void free_operation_names(char **names, int count)
free_operation_names(names, count) ==
  free_names_loop(names, 1, count) \o <<ArrayBlock>>

\* The string default is freed only when has_default, default_type == 4 and
\* the pointer are all set.
free_string_default(arg, i) ==
  IF arg.has_default # 0 /\ arg.default_type = 4 /\ arg.string_default # NullPtr
  THEN free(arg.string_default, StringBlock("string_default", i))
  ELSE <<>>

RECURSIVE free_arguments_loop(_, _, _)
\* The loop of free_operation_arguments over args[lo..hi].
free_arguments_loop(args, lo, hi) ==
  IF lo > hi THEN <<>>
  ELSE IF lo = hi
  THEN free(args[lo].name, StringBlock("name", lo))
       \o free(args[lo].nick, StringBlock("nick", lo))
       \o free(args[lo].blurb, StringBlock("blurb", lo))
       \o free_string_default(args[lo], lo)
  ELSE free_arguments_loop(args, lo, (lo + hi) \div 2)
       \o free_arguments_loop(args, (lo + hi) \div 2 + 1, hi)

\* void free_operation_arguments(ArgInfo *args, int count); null tells that
\* args is NULL.
free_operation_arguments(null, args, count) ==
  IF null THEN <<>>
  ELSE free_arguments_loop(args, 1, count) \o <<ArrayBlock>>

RECURSIVE free_info_loop(_, _, _)
\* The loop of free_operation_info over ops[lo..hi].
free_info_loop(ops, lo, hi) ==
  IF lo > hi THEN <<>>
  ELSE IF lo = hi
  THEN free(ops[lo].name, StringBlock("name", lo))
       \o free(ops[lo].nickname, StringBlock("nickname", lo))
       \o free(ops[lo].description, StringBlock("description", lo))
  ELSE free_info_loop(ops, lo, (lo + hi) \div 2)
       \o free_info_loop(ops, (lo + hi) \div 2 + 1, hi)

\* void free_operation_info(OperationInfo *ops, int count); the array
\* get_all_operations returns is never NULL.
free_operation_info(ops, count) ==
  free_info_loop(ops, 1, count) \o <<ArrayBlock>>

RECURSIVE free_values_loop(_, _, _)
\* The loop of free_enum_values over values[lo..hi].
free_values_loop(values, lo, hi) ==
  IF lo > hi THEN <<>>
  ELSE IF lo = hi
  THEN free(values[lo].name, StringBlock("name", lo))
       \o free(values[lo].nick, StringBlock("nick", lo))
  ELSE free_values_loop(values, lo, (lo + hi) \div 2)
       \o free_values_loop(values, (lo + hi) \div 2 + 1, hi)

\* void free_enum_values(EnumValueInfo *values, int count); free(values) is
\* free(NULL) when null.
free_enum_values(null, values, count) ==
  free_values_loop(values, 1, count) \o (IF null THEN <<>> ELSE <<ArrayBlock>>)

\* --------------------------------------------------- registries (inputs)

\* Operation nicknames used by the registries.
OpNames ==
  << <<"i","n","v","e","r","t">>,
     <<"j","p","e","g","l","o","a","d">>,
     <<"c","o","n","v">>,
     <<"r","e","s","i","z","e">>,
     <<"a","d","d">>,
     <<"l","o","a","d","c","o","n","v">>,
     <<"p","n","g","s","a","v","e">>,
     <<"a","f","f","i","n","e">>,
     <<"s","u","b","t","r","a","c","t">>,
     <<"c","o","n","v","a","d","d">>,
     <<"r","e","s","i","z","e","a","d","d">> >>

NickOf(t) == OpNames[t]

BaseNickname == <<"o","p","e","r","a","t","i","o","n">>
SomeDescription == <<"d","o","c">>

Kinds == {"abstract", "concrete", "broken"}

\* A registry of n types below the abstract base type.
MakeRegistry(n, parent, kind, strs, args) ==
  [n |-> n,
   parent |-> parent,
   kind |-> [t \in 0..n |-> IF t = 0 THEN "abstract" ELSE kind[t]],
   nickname |-> [t \in 0..n |-> IF t = 0 THEN BaseNickname ELSE strs[t].nickname],
   description |-> [t \in 0..n |-> IF t = 0 THEN SomeDescription
                                   ELSE strs[t].description],
   opflags |-> [t \in 0..n |-> 1 + (t % 2)],
   args |-> [t \in 0..n |-> IF t = 0 THEN <<>> ELSE args[t]]]

\* The parent functions of the trees of n types: a type is registered after
\* its parent.
Trees(n) == {f \in [1..n -> 0..(n - 1)] : \A t \in 1..n : f[t] < t}

\* A declared parameter: its GParamSpec and the flags of its argument class.
PSpec(kind, default_value, value_type) ==
  [kind |-> kind, default_value |-> default_value, value_type |-> value_type]

Param(name, flags, pspec) ==
  [name |-> name, nick |-> name, blurb |-> <<"b","l","u","r","b">>,
   flags |-> flags, pspec |-> pspec]

ImageSpec == PSpec("object", 0, "VipsImage")
BlobSpec == PSpec("boxed", 0, "VipsBlob")

\* The parameters the argument lists are built from: one per kind of default,
\* image parameters of every direction, buffer-like and array parameters.
ParamPool ==
  << Param(<<"s","h","r","i","n","k">>, {"INPUT"}, PSpec("boolean", TRUE, "gboolean")),
     Param(<<"x">>, {"INPUT"}, PSpec("boolean", FALSE, "gboolean")),
     Param(<<"x">>, {"INPUT"}, PSpec("int", -5, "gint")),
     Param(<<"x">>, {"INPUT"}, PSpec("uint", Guint(0, 3), "guint")),
     Param(<<"x">>, {"INPUT"}, PSpec("uint", Guint(65535, 65535), "guint")),
     Param(<<"x">>, {"INPUT"}, PSpec("double", 2, "gdouble")),
     Param(<<"x">>, {"INPUT"}, PSpec("float", 1, "gfloat")),
     Param(<<"x">>, {"INPUT"}, PSpec("string", <<"a","b","c">>, "gchararray")),
     Param(<<"x">>, {"INPUT"}, PSpec("string", Null, "gchararray")),
     Param(<<"x">>, {"INPUT"}, PSpec("enum", 1, "VipsAccess")),
     Param(<<"x">>, {"INPUT"}, PSpec("flags", 3, "VipsForeignFlags")),
     Param(<<"x">>, {"INPUT"}, PSpec("int64", 9, "gint64")),
     Param(<<"i","n">>, {"INPUT", "REQUIRED"}, ImageSpec),
     Param(<<"o","u","t">>, {"OUTPUT", "REQUIRED"}, ImageSpec),
     Param(<<"i","m">>, {"INPUT", "OUTPUT"}, ImageSpec),
     Param(<<"i","m">>, {}, ImageSpec),
     Param(<<"o","u","t">>, {"OUTPUT", "DEPRECATED"}, ImageSpec),
     Param(<<"i","n">>, {"INPUT", "DEPRECATED"}, ImageSpec),
     Param(S_buf, {"INPUT"}, BlobSpec),
     Param(S_buffer, {"OUTPUT"}, PSpec("pointer", 0, "gpointer")),
     Param(<<"b","u","f","f","y">>, {"INPUT"}, BlobSpec),
     Param(S_buf, {"INPUT"}, PSpec("int", 0, "gint")),
     Param(S_buffer, {"OUTPUT"}, BlobSpec),
     Param(<<"i","n">>, {"INPUT"}, PSpec("boxed", 0, "VipsArrayImage")),
     Param(<<"o","u","t">>, {"OUTPUT"}, PSpec("boxed", 0, "VipsArrayImage")) >>

\* The pool parameters that are combined into longer lists: the image
\* parameters of every direction, two buffers and a boolean.
MixPool ==
  <<ParamPool[13], ParamPool[14], ParamPool[15], ParamPool[16], ParamPool[17],
    ParamPool[19], ParamPool[20], ParamPool[1]>>

\* The parameters that follow a long run of parameters (cap cases).
TailPool == <<ParamPool[14], ParamPool[17], ParamPool[1]>>

\* n copies of a plain input parameter.
ManyParams(n) == [i \in 1..n |-> Param(<<"p">>, {"INPUT"}, PSpec("int", 0, "gint"))]

\* A registry with one concrete operation type below the base type.
OneOperation(kind, nickname, args) ==
  MakeRegistry(1, <<0>>, <<kind>>,
               <<[nickname |-> nickname,
                  description |-> IF nickname = Null THEN Null ELSE SomeDescription]>>,
               <<args>>)

\* Args family: one operation whose parameter list is a single pool
\* parameter, or any list of up to MaxParams mix parameters, or max_args - 1
\* or max_args plain parameters followed by up to MaxParams tail parameters.
IsArgsRegistry(r) ==
  \/ \E i \in 1..Len(ParamPool) :
       r = OneOperation("concrete", NickOf(1), <<ParamPool[i]>>)
  \/ \E k \in 0..MaxParams :
       \/ \E ix \in [1..k -> 1..Len(MixPool)] :
            r = OneOperation("concrete", NickOf(1), [i \in 1..k |-> MixPool[ix[i]]])
       \/ \E ix \in [1..k -> 1..Len(TailPool)], n \in {max_args - 1, max_args} :
            r = OneOperation("concrete", NickOf(1),
                             ManyParams(n) \o [i \in 1..k |-> TailPool[ix[i]]])

\* Category family: one operation under every nickname, usable or not.
IsCategoryRegistry(r) ==
  \E kind \in {"concrete", "broken"}, i \in 0..(Len(OpNames) + 1) :
    r = OneOperation(kind,
                     IF i = 0 THEN Null ELSE IF i > Len(OpNames) THEN <<>> ELSE OpNames[i],
                     <<ParamPool[13], ParamPool[14]>>)

\* The operation names a caller asks about: every nickname and type name of
\* the registry, and a name that is not registered.
QueryNames(r) ==
  ({r.nickname[t] : t \in Types(r)} \ {Null})
    \cup {TypeName(t) : t \in Types(r)}
    \cup {<<"n","o","s","u","c","h">>}

\* What a block returned by malloc may hold in each int-sized cell.
Heaps == {0, 1}

\* The strings a class may carry: no metadata at all, an empty nickname with
\* no description, or a nickname and a description.
TypeStrings(t) ==
  {[nickname |-> Null, description |-> Null],
   [nickname |-> <<>>, description |-> Null],
   [nickname |-> NickOf(t), description |-> SomeDescription]}

\* Walk family: every tree of up to MaxTypes types, every kind and strings.
IsWalkRegistry(r) ==
  \E n \in 0..MaxTypes :
    \E parent \in Trees(n), kind \in [1..n -> Kinds] :
      \E strs \in [1..n -> UNION {TypeStrings(t) : t \in 1..n}] :
        /\ \A t \in 1..n : strs[t] \in TypeStrings(t)
        /\ r = MakeRegistry(n, parent, kind, strs, [t \in 1..n |-> <<>>])

\* Small walk family: every tree of up to MaxCallTypes types of every kind,
\* with or without a nickname, each with one image parameter.
IsSmallRegistry(r) ==
  \E n \in 0..MaxCallTypes :
    \E parent \in Trees(n), kind \in [1..n -> Kinds], named \in [1..n -> BOOLEAN] :
      r = MakeRegistry(n, parent, kind,
            [t \in 1..n |-> IF named[t]
                            THEN [nickname |-> NickOf(t), description |-> SomeDescription]
                            ELSE [nickname |-> Null, description |-> Null]],
            [t \in 1..n |-> <<ParamPool[14]>>])

S_gint == <<"g","i","n","t">>
S_VipsAccess == <<"V","i","p","s","A","c","c","e","s","s">>
S_NoSuchType == <<"N","o","S","u","c","h","T","y","p","e">>

\* No named type at all.
NoEnums == <<>>

\* A fundamental type, which has no class.
GintType == [name |-> S_gint, classed |-> FALSE]

\* An enum class: its value count (a guint) and its value table.
EnumType(n_values, values) ==
  [name |-> S_VipsAccess, classed |-> TRUE, n_values |-> n_values, values |-> values]

\* Entry i of a value table; the name or the nick may be null.
EnumValue(i, has_name, has_nick) ==
  [value_name |-> IF has_name THEN <<"V", ToString(i)>> ELSE Null,
   value |-> i - 1,
   value_nick |-> IF has_nick THEN <<"v", ToString(i)>> ELSE Null]

\* Enum family: an enum class of up to MaxEnumValues values with any name or
\* nick null, or of EnumSanityLimit or EnumSanityLimit + 1 values, or with a
\* value count of 2^32 - 1.
IsEnumRegistry(en) ==
  \/ \E n \in 0..MaxEnumValues :
       \E has_name, has_nick \in [1..n -> BOOLEAN] :
         en = <<GintType,
                EnumType(Guint(0, n), [i \in 1..n |-> EnumValue(i, has_name[i], has_nick[i])])>>
  \/ \E n \in {EnumSanityLimit, EnumSanityLimit + 1} :
       en = <<GintType,
              EnumType(Guint(0, n), [i \in 1..n |-> EnumValue(i, i % 3 # 0, i % 2 # 0)])>>
  \/ en = <<GintType,
            EnumType(Guint(65535, 65535), <<EnumValue(1, TRUE, TRUE)>>)>>

\* The type names a caller asks about.
EnumQueryNames == {S_gint, S_VipsAccess, S_NoSuchType}

\* No operation type below the base type.
EmptyRegistry == MakeRegistry(0, <<>>, <<>>, <<>>, <<>>)

NoCall == [fn |-> "none"]
NoRet == [count |-> 0]

\* ------------------------------------------------------------------ actions

GetAllOperationNames ==
  LET out == get_all_operation_names(reg)
  IN /\ call' = [fn |-> "get_all_operation_names"]
     /\ ret' = [names |-> out.names, count |-> out.count]
     /\ log' = out.log
     /\ outstanding' = outstanding + Held(out.log)
     /\ UNCHANGED <<reg, enums>>

GetAllOperations ==
  LET out == get_all_operations(reg)
  IN /\ call' = [fn |-> "get_all_operations"]
     /\ ret' = [operations |-> out.operations, count |-> out.count]
     /\ log' = out.log
     /\ outstanding' = outstanding + Held(out.log)
     /\ UNCHANGED <<reg, enums>>

GetOperationArguments ==
  \E operation_name \in QueryNames(reg), heap \in Heaps :
    LET out == get_operation_arguments(reg, operation_name, heap)
    IN /\ call' = [fn |-> "get_operation_arguments", operation_name |-> operation_name]
       /\ ret' = [null |-> out.null, args |-> out.args, count |-> out.count]
       /\ log' = out.log
       /\ outstanding' = outstanding + Held(out.log)
       /\ UNCHANGED <<reg, enums>>

GetOperationDetails ==
  \E operation_name \in QueryNames(reg) :
    LET out == get_operation_details(reg, operation_name)
    IN /\ call' = [fn |-> "get_operation_details", operation_name |-> operation_name]
       /\ ret' = out.details
       /\ log' = out.log
       /\ outstanding' = outstanding + Held(out.log)
       /\ UNCHANGED <<reg, enums>>

GetEnumValues ==
  \E enum_type_name \in EnumQueryNames :
    LET out == get_enum_values(enums, enum_type_name)
    IN /\ call' = [fn |-> "get_enum_values", enum_type_name |-> enum_type_name]
       /\ ret' = [null |-> out.null, values |-> out.values, count |-> out.count]
       /\ log' = out.log
       /\ outstanding' = outstanding + Held(out.log)
       /\ UNCHANGED <<reg, enums>>

\* The caller passes an operation instance it holds.
GetVipsOperationArgs ==
  \E type \in 1..reg.n :
    /\ g_object_new(reg, type)
    /\ call' = [fn |-> "get_vips_operation_args", op |-> type]
    /\ ret' = get_vips_operation_args(reg, type)
    /\ log' = <<>>
    /\ UNCHANGED <<reg, enums, outstanding>>

\* The release functions, each called with the collection and the count its
\* query has just returned; ret keeps the collection released (of) and the
\* blocks freed, in order.
FreeOperationNames ==
  /\ call.fn = "get_all_operation_names"
  /\ call' = [fn |-> "free_operation_names"]
  /\ ret' = [of |-> ret, freed |-> free_operation_names(ret.names, ret.count)]
  /\ log' = <<>>
  /\ UNCHANGED <<reg, enums, outstanding>>

FreeOperationArguments ==
  /\ call.fn = "get_operation_arguments"
  /\ call' = [fn |-> "free_operation_arguments"]
  /\ ret' = [of |-> ret, freed |-> free_operation_arguments(ret.null, ret.args, ret.count)]
  /\ log' = <<>>
  /\ UNCHANGED <<reg, enums, outstanding>>

FreeOperationInfo ==
  /\ call.fn = "get_all_operations"
  /\ call' = [fn |-> "free_operation_info"]
  /\ ret' = [of |-> ret, freed |-> free_operation_info(ret.operations, ret.count)]
  /\ log' = <<>>
  /\ UNCHANGED <<reg, enums, outstanding>>

FreeEnumValues ==
  /\ call.fn = "get_enum_values"
  /\ call' = [fn |-> "free_enum_values"]
  /\ ret' = [of |-> ret, freed |-> free_enum_values(ret.null, ret.values, ret.count)]
  /\ log' = <<>>
  /\ UNCHANGED <<reg, enums, outstanding>>

\* Every release function the header declares.
Release ==
  \/ FreeOperationNames
  \/ FreeOperationArguments
  \/ FreeOperationInfo
  \/ FreeEnumValues

InitWalk ==
  /\ IsWalkRegistry(reg)
  /\ enums = NoEnums
  /\ call = NoCall
  /\ ret = NoRet
  /\ log = <<>>
  /\ outstanding = 0

NextWalk == GetAllOperationNames \/ GetAllOperations

SpecWalk == InitWalk /\ [][NextWalk]_vars

InitOps ==
  /\ IsArgsRegistry(reg) \/ IsCategoryRegistry(reg)
  /\ enums = NoEnums
  /\ call = NoCall
  /\ ret = NoRet
  /\ log = <<>>
  /\ outstanding = 0

NextOps == GetOperationArguments \/ GetOperationDetails

SpecOps == InitOps /\ [][NextOps]_vars

InitEnum ==
  /\ reg = EmptyRegistry
  /\ IsEnumRegistry(enums)
  /\ call = NoCall
  /\ ret = NoRet
  /\ log = <<>>
  /\ outstanding = 0

NextEnum == GetEnumValues

SpecEnum == InitEnum /\ [][NextEnum]_vars

\* Every query, on the small walk family, the args and category families and
\* the enum family.
Init ==
  /\ \/ (IsSmallRegistry(reg) \/ IsArgsRegistry(reg) \/ IsCategoryRegistry(reg))
        /\ enums = NoEnums
     \/ reg = EmptyRegistry /\ IsEnumRegistry(enums)
  /\ call = NoCall
  /\ ret = NoRet
  /\ log = <<>>
  /\ outstanding = 0

Next ==
  \/ GetAllOperationNames
  \/ GetAllOperations
  \/ GetOperationArguments
  \/ GetOperationDetails
  \/ GetEnumValues

Spec == Init /\ [][Next]_vars

\* Every query of both copies of the layer.
NextAll == Next \/ GetVipsOperationArgs

SpecAll == Init /\ [][NextAll]_vars

\* The five queries and the release functions.
NextRelease == Next \/ Release

SpecRelease == Init /\ [][NextRelease]_vars

\* ------------------------------------------------------------------ claims

\* The strings of the nicknames of the registry and of a sequence of copies.
NicknamesOf(r) == {r.nickname[t] : t \in Types(r)} \ {Null}
CharsOf(strs) == {strs[i].chars : i \in 1..Len(strs)}

\* How many entries of strs hold the characters s.
Occurrences(strs, s) == Cardinality({i \in 1..Len(strs) : strs[i].chars = s})

\* The descendants of the base type, at any depth.
Descendants(r) == 1..r.n

RECURSIVE DepthOf(_, _)
DepthOf(r, t) == IF t = VIPS_TYPE_OPERATION THEN 0 ELSE 1 + DepthOf(r, r.parent[t])

\* A type that is concrete, has a non-null nickname and can be instantiated.
Usable(r, t) == r.kind[t] = "concrete" /\ r.nickname[t] # Null

\* C1: after get_all_operation_names, every descendant of the base type, at
\* any depth, that is concrete, has a non-null nickname and can be
\* instantiated has its nickname among the returned names.
C1_Completeness ==
  call.fn = "get_all_operation_names" =>
    \A t \in Descendants(reg) :
      Usable(reg, t) => reg.nickname[t] \in CharsOf(ret.names)

\* What the walk does reach: the usable types one or two levels below the base.
C1_TwoLevels ==
  call.fn = "get_all_operation_names" =>
    \A t \in Descendants(reg) :
      (Usable(reg, t) /\ DepthOf(reg, t) <= 2) => reg.nickname[t] \in CharsOf(ret.names)

CalledOp == vips_operation_new(reg, call.operation_name)

\* The parameters the called operation declares, in declaration order.
Declared == reg.args[CalledOp.type]

\* The declared parameters that are not deprecated, in declaration order.
NotDeprecated == SelectSeq(Declared, LAMBDA p : "DEPRECATED" \notin p.flags)

\* The non-deprecated parameters that fit the per-operation cap.
Listed ==
  SubSeq(NotDeprecated, 1,
         IF Len(NotDeprecated) < max_args THEN Len(NotDeprecated) ELSE max_args)

ArgumentsReturned == call.fn = "get_operation_arguments" /\ CalledOp.ok
DetailsReturned == call.fn = "get_operation_details" /\ CalledOp.ok

\* C4: the sequence returned by get_operation_arguments holds no descriptor of
\* a parameter flagged DEPRECATED, and holds the non-deprecated parameters in
\* declaration order, up to the per-operation cap.
C4_NoDeprecated ==
  ArgumentsReturned =>
    /\ ~ret.null
    /\ ret.count = Len(Listed)
    /\ \A i \in 1..ret.count :
         /\ "DEPRECATED" \notin ret.args[i].flags
         /\ ret.args[i].name.chars = Listed[i].name
         /\ ret.args[i].flags = Listed[i].flags
         /\ ret.args[i].type_val = Listed[i].pspec.value_type

\* C4 witness: arguments were listed for an operation that declares a
\* deprecated parameter before a non-deprecated one.
C4_Witness ==
  /\ ArgumentsReturned
  /\ ret.count >= 1
  /\ \E j, k \in 1..Len(Declared) :
       /\ j < k
       /\ "DEPRECATED" \in Declared[j].flags
       /\ "DEPRECATED" \notin Declared[k].flags

\* A gint i and a guint u are the same number.
SameNumber(i, u) == i >= 0 /\ i \div 65536 = u.hi /\ i % 65536 = u.lo

\* The guint u narrowed to 32 signed bits: u itself below 2^31, u - 2^32 from
\* 2^31 up.
Narrowed(u) ==
  IF u.hi < 32768 THEN u.hi * 65536 + u.lo
  ELSE 0 - ((65535 - u.hi) * 65536 + (65536 - u.lo))

\* The default fields of descriptor a of parameter p, but for the uint kind.
DefaultDecoded(a, p) ==
  LET kind == p.pspec.kind
      dflt == p.pspec.default_value
  IN CASE kind = "boolean" ->
            a.has_default = 1 /\ a.default_type = 1 /\ a.bool_default = dflt
       [] kind \in {"int", "enum"} ->
            a.has_default = 1 /\ a.default_type = 2 /\ a.int_default = dflt
       [] kind = "uint" ->
            a.has_default = 1 /\ a.default_type = 2
       [] kind \in {"float", "double"} ->
            a.has_default = 1 /\ a.default_type = 3 /\ a.double_default = dflt
       [] kind = "string" ->
            IF dflt # Null
            THEN /\ a.has_default = 1 /\ a.default_type = 4
                 /\ a.string_default = Strdup(dflt)
            ELSE a.has_default = 0 /\ a.string_default = NullPtr
       [] OTHER -> a.has_default = 0

\* C5 (as claimed): every descriptor carries the default of its parameter:
\* typed 1, 2 or 3 with the typed field equal to the foreign default for the
\* scalar kinds, typed 4 exactly for a non-null string default, and no
\* default for every other kind.
C5_DefaultEqualsForeign ==
  ArgumentsReturned =>
    \A i \in 1..ret.count :
      /\ DefaultDecoded(ret.args[i], Listed[i])
      /\ Listed[i].pspec.kind = "uint"
           => SameNumber(ret.args[i].int_default, Listed[i].pspec.default_value)

\* C5 (amended): as claimed, except that for the uint kind int_default is the
\* foreign default narrowed to a signed 32-bit integer, which equals the
\* foreign default only below 2^31.
C5_DefaultDecoded ==
  ArgumentsReturned =>
    \A i \in 1..ret.count :
      /\ DefaultDecoded(ret.args[i], Listed[i])
      /\ Listed[i].pspec.kind = "uint"
           => /\ ret.args[i].int_default = Narrowed(Listed[i].pspec.default_value)
              /\ Listed[i].pspec.default_value.hi < 32768
                   => SameNumber(ret.args[i].int_default,
                                 Listed[i].pspec.default_value)

\* C5 witness: a descriptor was returned for a uint parameter whose default
\* is 2^31 or more.
C5_Witness ==
  /\ ArgumentsReturned
  /\ \E i \in 1..ret.count :
       /\ Listed[i].pspec.kind = "uint"
       /\ Listed[i].pspec.default_value.hi >= 32768
       /\ ret.args[i].has_default = 1

\* C6: in every returned descriptor is_buffer is true only for a parameter
\* named exactly "buf" or "buffer" whose value type is pointer-like,
\* blob-like or untyped; it is false for every other parameter.
C6_IsBufferDetermined ==
  ArgumentsReturned =>
    \A i \in 1..ret.count :
      ret.args[i].is_buffer # 0 =>
        /\ ret.args[i].name.chars \in {S_buf, S_buffer}
        /\ ret.args[i].type_val \in {"gpointer", "GBytes", "VipsBlob", G_TYPE_INVALID}

\* The parameters among ps with the OUTPUT flag and an image value type.
ImageOutputs(ps) ==
  {j \in 1..Len(ps) : "OUTPUT" \in ps[j].flags /\ ps[j].pspec.value_type = "VipsImage"}

\* C7 (as claimed): has_one_image_output is true iff exactly one declared
\* parameter with the OUTPUT flag has an image value type, has_image_output
\* iff at least one has.
C7_OneImageOutputDeclared ==
  DetailsReturned =>
    /\ ret.has_one_image_output = 1 <=> Cardinality(ImageOutputs(Declared)) = 1
    /\ ret.has_image_output = 1 <=> Cardinality(ImageOutputs(Declared)) >= 1

\* C7 (amended): the same, counted over the parameters that
\* get_operation_arguments lists: the non-deprecated ones, up to the cap.
C7_OneImageOutputListed ==
  DetailsReturned =>
    /\ ret.has_one_image_output \in {0, 1}
    /\ ret.has_image_output \in {0, 1}
    /\ ret.has_one_image_output = 1 <=> Cardinality(ImageOutputs(Listed)) = 1
    /\ ret.has_image_output = 1 <=> Cardinality(ImageOutputs(Listed)) >= 1

\* C7 witness: details were computed for an operation that declares two
\* output images, one of them deprecated, and reported one image output.
C7_Witness ==
  /\ DetailsReturned
  /\ Cardinality(ImageOutputs(Declared)) = 2
  /\ Cardinality(ImageOutputs(Listed)) = 1
  /\ ret.has_one_image_output = 1

\* The category rules, in priority order: patterns and category.
CategoryRules ==
  << <<{S_load, S_save}, S_foreign>>,
     <<{S_conv}, S_convolution>>,
     <<{S_affine, S_resize}, S_resample>>,
     <<{S_add, S_subtract}, S_arithmetic>> >>

\* The rules a name matches.
MatchingRules(name) ==
  {k \in 1..Len(CategoryRules) : \E pat \in CategoryRules[k][1] : Contains(name, pat)}

\* The category of the first matching rule, "operation" when none matches.
FirstMatch(name) ==
  IF MatchingRules(name) = {} THEN S_operation
  ELSE CategoryRules[CHOOSE k \in MatchingRules(name) :
                       \A m \in MatchingRules(name) : k <= m][2]

EnumValuesReturned == call.fn = "get_enum_values"

\* The named types the asked name resolves to.
ResolvedEnums == {t \in 1..Len(enums) : enums[t].name = call.enum_type_name}

\* The value count of an enum class as a natural number, -1 when it is
\* 2^16 or more.
DeclaredCount(e) == IF e.n_values.hi = 0 THEN e.n_values.lo ELSE -1

EmptyEnumResult == ret.null /\ ret.count = 0

\* C9: get_enum_values returns the empty result when the type name does not
\* resolve, or when the class declares no value or more than 100; for a count
\* n in 1..100 it returns exactly n entries in table order, each with the
\* value, the name ("UNKNOWN" for a null name) and the nick ("" for a null
\* nick), and no entry has a null string.
C9_EnumValues ==
  EnumValuesReturned =>
    /\ ResolvedEnums = {} => EmptyEnumResult
    /\ \A t \in ResolvedEnums :
         enums[t].classed =>
           IF DeclaredCount(enums[t]) \in 1..EnumSanityLimit
           THEN /\ ~ret.null
                /\ ret.count = DeclaredCount(enums[t])
                /\ Len(ret.values) = ret.count
                /\ \A i \in 1..ret.count :
                     /\ ret.values[i].value = enums[t].values[i].value
                     /\ ret.values[i].name.heap /\ ret.values[i].nick.heap
                     /\ ret.values[i].name.chars =
                          (IF enums[t].values[i].value_name = Null
                           THEN S_UNKNOWN ELSE enums[t].values[i].value_name)
                     /\ ret.values[i].nick.chars =
                          (IF enums[t].values[i].value_nick = Null
                           THEN <<>> ELSE enums[t].values[i].value_nick)
           ELSE EmptyEnumResult

\* A class of exactly 100 values was asked for and all 100 came back, a null
\* name among them replaced.
C9_Witness ==
  /\ EnumValuesReturned
  /\ ret.count = EnumSanityLimit
  /\ \E t \in ResolvedEnums, i \in 1..ret.count :
       /\ enums[t].values[i].value_name = Null
       /\ ret.values[i].name.chars = S_UNKNOWN

\* ---- C10

Acquisitions == {"g_type_class_ref", "g_object_new"}

\* The handle an event is about: a class reference or an instance of a type.
HandleOf(e) ==
  <<IF e[1] \in {"g_type_class_ref", "g_type_class_unref"} THEN "class" ELSE "instance",
    e[2]>>

\* Acquisitions minus releases of handle h among the first k events of s.
HeldOf(s, k, h) ==
  Cardinality({i \in 1..k : HandleOf(s[i]) = h /\ s[i][1] \in Acquisitions})
  - Cardinality({i \in 1..k : HandleOf(s[i]) = h /\ s[i][1] \notin Acquisitions})

\* No handle is released before it is acquired, and each is released by the
\* end of the call.
Paired(s) ==
  \A i \in 1..Len(s) :
    /\ \A k \in 0..Len(s) : HeldOf(s, k, HandleOf(s[i])) >= 0
    /\ HeldOf(s, Len(s), HandleOf(s[i])) = 0

\* C10: every class reference and every operation instance a query acquires
\* is released before the query returns: at each call boundary no handle is
\* outstanding, whichever of the five queries ran and whatever it returned.
C10_HandlesReleased == outstanding = 0 /\ Paired(log)

\* The details query of an operation that exists has returned, having
\* created and released six instances.
C10_Witness ==
  /\ DetailsReturned
  /\ Cardinality({i \in 1..Len(log) : log[i][1] = "g_object_new"}) = 6
  /\ outstanding = 0

\* ---- C11

\* A returned char* that is NULL or points to a block the query allocated.
Detached(p) == p = NullPtr \/ p.heap

\* The char* fields of what the last query returned.
ReturnedStrings ==
  IF call.fn = "get_all_operation_names"
  THEN {ret.names[i] : i \in 1..ret.count}
  ELSE IF call.fn = "get_all_operations"
  THEN UNION {{ret.operations[i].name, ret.operations[i].nickname,
               ret.operations[i].description} : i \in 1..ret.count}
  ELSE IF call.fn = "get_operation_arguments"
  THEN UNION {{ret.args[i].name, ret.args[i].nick, ret.args[i].blurb,
               ret.args[i].string_default} : i \in 1..ret.count}
  ELSE IF call.fn = "get_operation_details"
  THEN {ret.category}
  ELSE IF call.fn = "get_enum_values"
  THEN UNION {{ret.values[i].name, ret.values[i].nick} : i \in 1..ret.count}
  ELSE IF call.fn = "get_vips_operation_args"
  THEN {ret.names[i] : i \in 1..Len(ret.names)}
  ELSE {}

\* C11: every string in a record or array returned by any query, the names
\* array filled by get_vips_operation_args included, is a copy the returned
\* collection owns; none points into memory of the type system.
C11_Detachment == \A p \in ReturnedStrings : Detached(p)

\* The same for the queries of src/internal only, which copy with strdup.
C11_DetachmentInternal ==
  call.fn # "get_vips_operation_args" => \A p \in ReturnedStrings : Detached(p)

\* ---- C12

\* C12: get_operation_arguments never returns a count above 50 and fills no
\* slot at index 50 or beyond; an operation with more than 50 non-deprecated
\* parameters gets exactly the first 50 of them and no error, and an
\* operation with at most 50 gets them all, however many deprecated
\* parameters lie between them.
C12_Cap ==
  ArgumentsReturned =>
    /\ ret.count <= max_args
    /\ Len(ret.args) = ret.count
    /\ Len(NotDeprecated) <= max_args => ret.count = Len(NotDeprecated)
    /\ Len(NotDeprecated) > max_args =>
         /\ ~ret.null
         /\ ret.count = max_args
         /\ \A i \in 1..max_args : ret.args[i].name.chars = NotDeprecated[i].name

\* Arguments were listed for an operation with more than 50 non-deprecated
\* parameters, and 50 came back.
C12_Witness ==
  /\ ArgumentsReturned
  /\ Len(NotDeprecated) > max_args
  /\ ret.count = max_args
  /\ ~ret.null

\* ---- C13

\* The blocks entry i of a collection owns: the strings in fields that the
\* query allocated.
EntryBlocks(entry, fields, i) ==
  {StringBlock(f, i) : f \in {g \in fields : entry[g].heap}}

\* The blocks query fn allocated for the collection c it returned.
BlocksOf(fn, c) ==
  IF fn = "get_all_operation_names"
  THEN {ArrayBlock} \cup {StringBlock("names", i) : i \in {j \in 1..c.count : c.names[j].heap}}
  ELSE IF fn = "get_all_operations"
  THEN {ArrayBlock} \cup UNION {EntryBlocks(c.operations[i],
                                   {"name", "nickname", "description"}, i) : i \in 1..c.count}
  ELSE IF fn = "get_operation_arguments"
  THEN IF c.null THEN {}
       ELSE {ArrayBlock} \cup UNION {EntryBlocks(c.args[i],
                                       {"name", "nick", "blurb", "string_default"}, i) :
                                     i \in 1..c.count}
  ELSE IF fn = "get_enum_values"
  THEN IF c.null THEN {}
       ELSE {ArrayBlock} \cup UNION {EntryBlocks(c.values[i], {"name", "nick"}, i) :
                                     i \in 1..c.count}
  ELSE IF fn = "get_operation_details"
  THEN IF c.category.heap THEN {StringBlock("category", 0)} ELSE {}
  ELSE {}

QueryOf ==
  [free_operation_names |-> "get_all_operation_names",
   free_operation_info |-> "get_all_operations",
   free_operation_arguments |-> "get_operation_arguments",
   free_enum_values |-> "get_enum_values"]

Queries ==
  {"get_all_operation_names", "get_all_operations", "get_operation_arguments",
   "get_operation_details", "get_enum_values"}

\* A release has just run: each block of the collection was freed exactly
\* once and nothing else was freed.
FreedExactlyOnce ==
  call.fn \in DOMAIN QueryOf =>
    /\ \A b \in BlocksOf(QueryOf[call.fn], ret.of) :
         Cardinality({k \in 1..Len(ret.freed) : ret.freed[k] = b}) = 1
    /\ \A k \in 1..Len(ret.freed) : ret.freed[k] \in BlocksOf(QueryOf[call.fn], ret.of)

\* C13: each of the five queries has a matching release, so that whatever a
\* query returned can be released; and after a query and one call of its
\* release every block the query allocated has been freed exactly once, the
\* string_default of string arguments and the category of an operation's
\* details included.
C13_ReleasePairing ==
  /\ call.fn \in Queries /\ BlocksOf(call.fn, ret) # {} => ENABLED Release
  /\ FreedExactlyOnce

\* The pairing of the four queries that have a release function.
C13_FourPaired ==
  /\ call.fn \in Queries \ {"get_operation_details"} => ENABLED Release
  /\ FreedExactlyOnce

\* Arguments with a string default were listed and released.
C13_FourPairedWitness ==
  /\ call.fn = "free_operation_arguments"
  /\ StringBlock("string_default", 1) \in BlocksOf("get_operation_arguments", ret.of)
  /\ Len(ret.freed) = 5

\* ---- C14

\* The declared parameters that carry the INPUT flag and have an image value
\* kind.
ImageInputs ==
  {i \in 1..Len(Declared) :
     "INPUT" \in Declared[i].flags /\ g_type_is_a(Declared[i].pspec.value_type, "VipsImage")}

\* C14: get_operation_details sets has_image_input exactly when some
\* parameter carrying the INPUT flag has an image value kind, whatever its
\* OUTPUT flag: an image parameter flagged INPUT and OUTPUT sets it, an image
\* parameter flagged neither does not.
C14_ImageInputByFlag ==
  DetailsReturned => (ret.has_image_input = 1 <=> ImageInputs # {})

\* What the code computes instead: has_image_input is set exactly when some
\* listed descriptor without the OUTPUT flag has an image value kind.
C14_ImageInputByNotOutput ==
  DetailsReturned =>
    (ret.has_image_input = 1 <=>
       \E i \in 1..Len(Listed) :
         /\ "OUTPUT" \notin Listed[i].flags
         /\ g_type_is_a(Listed[i].pspec.value_type, "VipsImage"))

====
